---- MODULE Spec2Model ----
(***************************************************************************)
(* Model of the modbus exporter's scrape pipeline (modbus/modbus.go):      *)
(* Exporter.Scrape, scrapeMetrics, scrapeMetric, parseModbusData and       *)
(* registerMetrics, together with the parts of the Prometheus client and   *)
(* of the modbus client that the pipeline's control flow depends on.       *)
(*                                                                         *)
(* Two specifications are defined:                                         *)
(*   Spec        the scrape pipeline, one Scrape call after another;       *)
(*   SpecDecode  parseModbusData applied to every bounded input.           *)
(***************************************************************************)
EXTENDS Integers, Sequences, FiniteSets, TLC

VARIABLES
    config,             \* Exporter.config: the module's metric definitions
    config0,            \* history: config as it was at construction
    scrapes,            \* number of Scrape calls started so far
    pc,                 \* position of the running Scrape call
    moduleName,         \* Scrape's moduleName argument
    metrics,            \* scrapeMetrics' local slice "metrics"
    reads,              \* reads issued on the modbus client by this Scrape
    regIdx,             \* registerMetrics: loop iterations started
    reg,                \* prometheus.Registry: the registered collectors
    registeredGauges,   \* registerMetrics' local map
    registeredCounters, \* registerMetrics' local map
    result,             \* outcome of the Scrape call
    dDef,               \* SpecDecode: the definition handed to the decoder
    dRaw,               \* SpecDecode: the raw bytes handed to the decoder
    dOut                \* SpecDecode: what parseModbusData produced

vars == <<config, config0, scrapes, pc, moduleName, metrics, reads, regIdx,
          reg, registeredGauges, registeredCounters, result, dDef, dRaw, dOut>>

scrapeVars == <<config, config0, scrapes, pc, moduleName, metrics, reads,
                regIdx, reg, registeredGauges, registeredCounters, result>>

decodeVars == <<dDef, dRaw, dOut>>

(***************************************************************************)
(* Bounds of the model.                                                    *)
(***************************************************************************)
MaxLen == 4         \* longest raw byte buffer handed to the decoder
MaxDefs == 2        \* most metric definitions in the configured module
MaxScrapes == 2     \* most Scrape calls in one behaviour

ByteVals == {0, 2, 255}

RECURSIVE SeqsUpTo(_, _)
SeqsUpTo(S, n) ==
    IF n = 0 THEN {<<>>}
    ELSE LET shorter == SeqsUpTo(S, n - 1)
         IN  shorter \cup {Append(s, x) : s \in {t \in shorter : Len(t) = n - 1}, x \in S}

RECURSIVE Pow2(_)
Pow2(n) == IF n = 0 THEN 1 ELSE 2 * Pow2(n - 1)

(***************************************************************************)
(* float64 values.  TLC's integers are 32 bits wide, and the decoder       *)
(* produces every uint32, so an integral float64 is held as two limbs:     *)
(* the value hi * 65536 + lo with lo in 0..65535.  A float32 that is not a *)
(* small integer is denoted by its IEEE-754 bit pattern (cls "f32").       *)
(***************************************************************************)
IntF64(n) == [cls |-> "int", hi |-> n \div 65536, lo |-> n % 65536]

WordsF64(hi, lo) == [cls |-> "int", hi |-> hi, lo |-> lo]

ZeroF64 == IntF64(0)

OneF64 == IntF64(1)

\* v < 0 on float64
F64Negative(v) ==
    IF v.cls = "int" THEN v.hi < 0
    ELSE \* sign bit set and not a NaN
         /\ v.hi >= 32768
         /\ ~ (((v.hi \div 128) % 256 = 255) /\ ((v.hi % 128) # 0 \/ v.lo # 0))

\* a + b on integral float64 values
F64Add(a, b) ==
    LET s == a.lo + b.lo
    IN  [cls |-> "int", hi |-> a.hi + b.hi + (s \div 65536), lo |-> s % 65536]

\* math.Float32frombits followed by the widening float64(...)
Float32frombits(hi, lo) ==
    LET sign == hi \div 32768
        e    == (hi \div 128) % 256
        m    == (hi % 128) * 65536 + lo
        sig  == 8388608 + m
    IN  IF e = 0 /\ m = 0 THEN ZeroF64
        ELSE IF e >= 127 /\ e <= 150 /\ sig % Pow2(150 - e) = 0
             THEN IntF64((IF sign = 1 THEN -1 ELSE 1) * (sig \div Pow2(150 - e)))
             ELSE [cls |-> "f32", hi |-> hi, lo |-> lo]

\* binary.BigEndian.Uint16 (the caller guarantees two bytes)
BigEndianUint16(b) == b[1] * 256 + b[2]

\* int16(i) for a uint16 i
Int16Of(i) == IF i >= 32768 THEN i - 65536 ELSE i

\* bitwise and of two uint16
RECURSIVE And16(_, _, _)
And16(a, b, n) ==
    IF n = 0 THEN 0
    ELSE (IF a % 2 = 1 /\ b % 2 = 1 THEN 1 ELSE 0) + 2 * And16(a \div 2, b \div 2, n - 1)

\* uint16(1) << uint16(k): Go shifts out of the word for k >= 16
Shl16One(k) == IF k >= 16 THEN 0 ELSE Pow2(k)

(***************************************************************************)
(* parseModbusData.  A result is a value, an error, or a panic.            *)
(***************************************************************************)
NoErr == [type |-> "none", expected |-> 0, got |-> 0]

ParseValue(v) == [kind |-> "value", v |-> v, err |-> NoErr]

ParseError(t, expected, got) ==
    [kind |-> "error", v |-> ZeroF64, err |-> [type |-> t, expected |-> expected, got |-> got]]

ParsePanic(t) ==
    [kind |-> "panic", v |-> ZeroF64, err |-> [type |-> t, expected |-> 0, got |-> 0]]

InsufficientRegistersError(expected, got) ==
    ParseError("InsufficientRegistersError", expected, got)

parseFloat16(rawData) ==
    IF Len(rawData) < 2 THEN InsufficientRegistersError(1, Len(rawData))
    ELSE ParsePanic("implement")

parseFloat32Short(rawData) ==
    IF Len(rawData) < 2 THEN InsufficientRegistersError(2, Len(rawData))
    ELSE IF Len(rawData) < 4 THEN ParsePanic("slice bounds out of range")
    ELSE ParseValue(Float32frombits(BigEndianUint16(rawData),
                                    BigEndianUint16(SubSeq(rawData, 3, 4))))

parseFloat32(rawData) ==
    IF Len(rawData) < 4 THEN InsufficientRegistersError(2, Len(rawData))
    ELSE ParseValue(Float32frombits(BigEndianUint16(rawData),
                                    BigEndianUint16(SubSeq(rawData, 3, 4))))

parseInt16(rawData) ==
    IF Len(rawData) < 2 THEN InsufficientRegistersError(1, Len(rawData))
    ELSE ParseValue(IntF64(Int16Of(BigEndianUint16(rawData))))

parseInt32(rawData) ==
    IF Len(rawData) < 4 THEN InsufficientRegistersError(2, Len(rawData))
    ELSE ParseValue(IntF64(BigEndianUint16(rawData)))

\* binary.BigEndian.Uint32 indexes rawData[3]: a run-time panic below 4 bytes
parseUInt16(rawData) ==
    IF Len(rawData) < 2 THEN InsufficientRegistersError(1, Len(rawData))
    ELSE IF Len(rawData) < 4 THEN ParsePanic("index out of range")
    ELSE ParseValue(WordsF64(BigEndianUint16(rawData),
                             BigEndianUint16(SubSeq(rawData, 3, 4))))

parseBoolFromMsb(d, rawData) ==
    IF Len(rawData) < 2 THEN InsufficientRegistersError(1, Len(rawData))
    ELSE IF d.BitOffset = <<>> THEN ParseError("expected bit position on boolean data type", 0, 0)
    ELSE LET data == BigEndianUint16(rawData)
             k    == d.BitOffset[1]
         IN  IF And16(data, IF k >= 16 THEN 0 ELSE Pow2(15 - k), 16) > 0
             THEN ParseValue(OneF64) ELSE ParseValue(ZeroF64)

parseBool(d, rawData) ==
    IF Len(rawData) < 2 THEN InsufficientRegistersError(1, Len(rawData))
    ELSE IF d.BitOffset = <<>> THEN ParseError("expected bit position on boolean data type", 0, 0)
    ELSE LET data == BigEndianUint16(rawData)
         IN  IF And16(data, Shl16One(d.BitOffset[1]), 16) > 0
             THEN ParseValue(OneF64) ELSE ParseValue(ZeroF64)

parseModbusData(d, rawData) ==
    CASE d.DataType = "float16" -> parseFloat16(rawData)
      [] d.DataType = "float32" -> parseFloat32(rawData)
      [] d.DataType = "int16"   -> parseInt16(rawData)
      [] d.DataType = "int32"   -> parseInt32(rawData)
      [] d.DataType = "uint16"  -> parseUInt16(rawData)
      [] d.DataType = "bool"    -> parseBool(d, rawData)
      [] OTHER                  -> ParseError("unknown modbus data type", 0, 0)

(***************************************************************************)
(* The configuration: one module, ModuleName, with its metric definitions. *)
(* A Go map is a reference: Labels is <<>> for a nil map and <<m>> for a   *)
(* map object with contents m.  The map object of definition i is owned by *)
(* config[i]; a metric built from it carries the reference <<i>>.          *)
(***************************************************************************)
ModuleName == "m"

MetricDef(name, labels, address, dataType, bitOffset, metricType) ==
    [Name |-> name, Labels |-> labels, Address |-> address, DataType |-> dataType,
     BitOffset |-> bitOffset, MetricType |-> metricType]

DefSet ==
    { MetricDef("x", << ("a" :> "1") >>, 40001, "int16",   <<>>,  "gauge"),
      MetricDef("x", << ("a" :> "2") >>, 30002, "int32",   <<>>,  "gauge"),
      MetricDef("x", <<>>,                   1, "bool",    <<1>>, "gauge"),
      MetricDef("c", << ("a" :> "1") >>, 30002, "int16",   <<>>,  "counter"),
      MetricDef("c", <<>>,               10001, "uint16",  <<>>,  "counter"),
      MetricDef("x", << ("a" :> "1") >>, 40001, "int16",   <<>>,  "counter"),
      MetricDef("f", <<>>,               40001, "float16", <<>>,  "gauge"),
      MetricDef("r", <<>>,               20000, "int16",   <<>>,  "gauge"),
      MetricDef("r", << ("a" :> "1") >>, 50000, "float32", <<>>,  "gauge"),
      MetricDef("b", << ("a" :> "1") >>, 10001, "bool",    <<>>,  "gauge"),
      MetricDef("u", <<>>,                   0, "other",   <<>>,  "counter") }

Modules == SeqsUpTo(DefSet, MaxDefs)

\* what a read on the modbus client can produce: an error or bytes
ReadOutcomes ==
    { [ok |-> FALSE, bytes |-> <<>>],
      [ok |-> TRUE,  bytes |-> <<2>>],
      [ok |-> TRUE,  bytes |-> <<0, 2>>],
      [ok |-> TRUE,  bytes |-> <<0, 2, 0, 2>>],
      [ok |-> TRUE,  bytes |-> <<255, 255, 0, 2>>] }

DataTypes == {"float16", "float32", "int16", "int32", "uint16", "bool", "other"}

BitOffsets == {<<>>, <<0>>, <<1>>, <<15>>, <<16>>}

DecodeDefs ==
    { MetricDef("x", <<>>, 40001, t, o, "gauge") : t \in DataTypes, o \in BitOffsets }

RawInputs == SeqsUpTo(ByteVals, MaxLen)

(***************************************************************************)
(* scrapeMetrics and scrapeMetric.                                         *)
(***************************************************************************)
\* the switch on definition.Address / 10000
DispatchSwapped(address) ==
    CASE address \div 10000 = 0 -> "ReadCoils"
      [] address \div 10000 = 1 -> "ReadDiscreteInputs"
      [] address \div 10000 = 3 -> "ReadHoldingRegisters"
      [] address \div 10000 = 4 -> "ReadInputRegisters"
      [] OTHER                  -> "none"

Dispatch(address) ==
    CASE address \div 10000 = 0 -> "ReadCoils"
      [] address \div 10000 = 1 -> "ReadDiscreteInputs"
      [] address \div 10000 = 3 -> "ReadInputRegisters"
      [] address \div 10000 = 4 -> "ReadHoldingRegisters"
      [] OTHER                  -> "none"

\* the call f(uint16(definition.Address%10000), div)
ReadRequest(definition, f) ==
    [fn |-> f, address |-> definition.Address % 10000, quantity |-> 2]

NoMetric == [Name |-> "", Labels |-> <<>>, Value |-> ZeroF64, MetricType |-> ""]

NoError == [kind |-> "none"]

\* scrapeMetric, given what the read produced; ref is the definition's map object
scrapeMetric(definition, ref, outcome) ==
    IF ~ outcome.ok
    THEN [kind |-> "error", m |-> NoMetric, err |-> [kind |-> "read"]]
    ELSE LET p == parseModbusData(definition, outcome.bytes)
         IN  CASE p.kind = "error" ->
                    [kind |-> "error", m |-> NoMetric, err |-> [kind |-> "parse", cause |-> p.err]]
               [] p.kind = "panic" ->
                    [kind |-> "panic", m |-> NoMetric, err |-> [kind |-> "parse", cause |-> p.err]]
               [] OTHER ->
                    [kind |-> "metric",
                     m |-> [Name |-> definition.Name,
                            Labels |-> IF definition.Labels = <<>> THEN <<>> ELSE <<ref>>,
                            Value |-> p.v,
                            MetricType |-> definition.MetricType],
                     err |-> NoError]

(***************************************************************************)
(* The Prometheus client as registerMetrics uses it.  A collector (a       *)
(* GaugeVec or CounterVec) has a label schema, keys, and one child per     *)
(* label combination.                                                      *)
(***************************************************************************)
NewVec(labelKeys) == [keys |-> labelKeys, children |-> <<>>]

\* keys(m.Labels)
keys(m) == DOMAIN m

\* reg.Register fails when a collector of that name is already registered
CanRegister(registry, name) == \A k \in 1..Len(registry) : registry[k].Name # name

\* GetMetricWith: the labels must be exactly the collector's schema
WithOk(collector, labels) == DOMAIN labels = collector.keys

ChildValue(collector, labels) ==
    IF labels \in DOMAIN collector.children THEN collector.children[labels] ELSE ZeroF64

SetChild(collector, labels, v) ==
    [collector EXCEPT !.children =
        [l \in (DOMAIN collector.children) \cup {labels} |->
            IF l = labels THEN v ELSE collector.children[l]]]

\* collector.With(m.Labels).Set(m.Value): a panic of With is not recovered
ApplyGauge(collector, labels, v) ==
    IF ~ WithOk(collector, labels)
    THEN [outcome |-> "panic", collector |-> collector, cause |-> "inconsistent label cardinality"]
    ELSE [outcome |-> "ok", collector |-> SetChild(collector, labels, v), cause |-> ""]

\* collector.With(m.Labels).Add(m.Value) without the deferred recover
ApplyCounterNoRecover(collector, labels, v) ==
    IF ~ WithOk(collector, labels)
    THEN [outcome |-> "panic", collector |-> collector, cause |-> "inconsistent label cardinality"]
    ELSE LET c == SetChild(collector, labels, ChildValue(collector, labels))
         IN  IF F64Negative(v)
             THEN [outcome |-> "panic", collector |-> c, cause |-> "counter cannot decrease in value"]
             ELSE [outcome |-> "ok",
                   collector |-> SetChild(c, labels, F64Add(ChildValue(c, labels), v)),
                   cause |-> ""]

\* the closure where the counter is overwritten instead of added to
ApplyCounterSet(collector, labels, v) ==
    IF ~ WithOk(collector, labels)
    THEN [outcome |-> "error", collector |-> collector, cause |-> "inconsistent label cardinality"]
    ELSE LET c == SetChild(collector, labels, ChildValue(collector, labels))
         IN  IF F64Negative(v)
             THEN [outcome |-> "error", collector |-> c, cause |-> "counter cannot decrease in value"]
             ELSE [outcome |-> "ok", collector |-> SetChild(c, labels, v), cause |-> ""]

\* the closure with the deferred recover around collector.With(m.Labels).Add(m.Value):
\* both panics (of With and of Add) carry an error and come back as err
ApplyCounter(collector, labels, v) ==
    IF ~ WithOk(collector, labels)
    THEN [outcome |-> "error", collector |-> collector, cause |-> "inconsistent label cardinality"]
    ELSE LET c == SetChild(collector, labels, ChildValue(collector, labels))
         IN  IF F64Negative(v)
             THEN [outcome |-> "error", collector |-> c, cause |-> "counter cannot decrease in value"]
             ELSE [outcome |-> "ok",
                   collector |-> SetChild(c, labels, F64Add(ChildValue(c, labels), v)),
                   cause |-> ""]

\* m.Labels after "if m.Labels == nil {...}; m.Labels["module"] = moduleName"
InjectModule(labelsOpt, name) ==
    LET base == IF labelsOpt = <<>> THEN <<>> ELSE labelsOpt[1]
    IN  [k \in (DOMAIN base) \cup {"module"} |-> IF k = "module" THEN name ELSE base[k]]

(***************************************************************************)
(* One iteration of registerMetrics' loop over the metric m, whose labels  *)
(* (module label injected) are labels.  Yields the registry, the two local *)
(* maps, and how the iteration ended: "ok" (the loop goes on), "error"     *)
(* (registerMetrics returns err) or "panic".                               *)
(***************************************************************************)
RegisterIteration(m, labels, registry, gauges, counters) ==
    LET isGauge  == m.MetricType = "gauge"
        table    == IF isGauge THEN gauges ELSE counters
        ok       == m.Name \in DOMAIN table
        same     == [reg |-> registry, gauges |-> gauges, counters |-> counters]
    IN  IF ~ ok /\ ~ CanRegister(registry, m.Name)
        THEN same @@ [outcome |-> "error",
                      err |-> [kind |-> "register_metric", Name |-> m.Name]]
        ELSE LET collector == IF ok THEN table[m.Name] ELSE NewVec(keys(labels))
                 registry2 == IF ok THEN registry
                              ELSE Append(registry, [Name |-> m.Name, Kind |-> m.MetricType,
                                                     Keys |-> keys(labels)])
                 a         == IF isGauge THEN ApplyGauge(collector, labels, m.Value)
                              ELSE ApplyCounter(collector, labels, m.Value)
                 table2    == [n \in (DOMAIN table) \cup {m.Name} |->
                                  IF n = m.Name THEN a.collector ELSE table[n]]
             IN  [reg |-> registry2,
                  gauges |-> IF isGauge THEN table2 ELSE gauges,
                  counters |-> IF isGauge THEN counters ELSE table2,
                  outcome |-> a.outcome,
                  err |-> IF a.outcome = "ok" THEN NoError
                          ELSE [kind |-> "apply", Name |-> m.Name, MetricType |-> m.MetricType,
                                Value |-> m.Value, Labels |-> labels, cause |-> a.cause]]

(***************************************************************************)
(* State after construction, and Exporter.Scrape step by step.             *)
(***************************************************************************)
NoResult == [status |-> "none", gatherer |-> FALSE, err |-> NoError]

NoDecode == [kind |-> "none", v |-> ZeroF64, err |-> NoErr]

IdleLocals ==
    /\ pc = "idle"
    /\ moduleName = ""
    /\ metrics = <<>>
    /\ reads = <<>>
    /\ regIdx = 0
    /\ reg = <<>>
    /\ registeredGauges = <<>>
    /\ registeredCounters = <<>>
    /\ result = NoResult

Init ==
    /\ config \in Modules
    /\ config0 = config
    /\ scrapes = 0
    /\ IdleLocals
    /\ dDef = MetricDef("x", <<>>, 40001, "int16", <<>>, "gauge")
    /\ dRaw = <<>>
    /\ dOut = NoDecode

Fail(e) == [status |-> "error", gatherer |-> FALSE, err |-> e]

Panic(e) == [status |-> "panic", gatherer |-> FALSE, err |-> e]

\* Scrape up to the call of scrapeMetrics: registry, module lookup, connect
ScrapeStart ==
    /\ pc = "idle"
    /\ scrapes < MaxScrapes
    /\ scrapes' = scrapes + 1
    /\ \E name \in {ModuleName, "absent"}, connected \in BOOLEAN :
         /\ moduleName' = name
         /\ IF name # ModuleName
            THEN /\ result' = Fail([kind |-> "module_not_found", module |-> name])
                 /\ pc' = "done"
            ELSE IF ~ connected
            THEN /\ result' = Fail([kind |-> "connect", module |-> name])
                 /\ pc' = "done"
            ELSE /\ result' = result
                 /\ pc' = "scrapeMetrics"
    /\ reg' = <<>>
    /\ UNCHANGED <<config, config0, metrics, reads, regIdx, registeredGauges,
                   registeredCounters, decodeVars>>

\* one iteration of scrapeMetrics' loop: dispatch, read, decode, append
ScrapeMetricsStep ==
    /\ pc = "scrapeMetrics"
    /\ Len(metrics) < Len(config)
    /\ LET ref        == Len(metrics) + 1
           definition == config[ref]
           f          == Dispatch(definition.Address)
       IN  IF f = "none"
           THEN /\ metrics' = <<>>
                /\ reads' = reads
                /\ result' = Fail([kind |-> "scrape", module |-> moduleName,
                                   inner |-> [kind |-> "address_range",
                                              Name |-> definition.Name,
                                              Address |-> definition.Address]])
                /\ pc' = "done"
           ELSE \E outcome \in ReadOutcomes :
                  LET r == scrapeMetric(definition, ref, outcome)
                  IN  /\ reads' = Append(reads, ReadRequest(definition, f))
                      /\ CASE r.kind = "metric" ->
                                /\ metrics' = Append(metrics, r.m)
                                /\ UNCHANGED <<result, pc>>
                           [] r.kind = "error" ->
                                /\ metrics' = <<>>
                                /\ result' = Fail([kind |-> "scrape", module |-> moduleName,
                                                   inner |-> [kind |-> "metric",
                                                              Name |-> definition.Name,
                                                              Address |-> definition.Address,
                                                              cause |-> r.err]])
                                /\ pc' = "done"
                           [] OTHER ->
                                /\ metrics' = metrics
                                /\ result' = Panic(r.err)
                                /\ pc' = "done"
    /\ UNCHANGED <<config, config0, scrapes, moduleName, regIdx, reg, registeredGauges,
                   registeredCounters, decodeVars>>

\* scrapeMetrics returns the slice; Scrape calls registerMetrics
ScrapeMetricsReturn ==
    /\ pc = "scrapeMetrics"
    /\ Len(metrics) = Len(config)
    /\ pc' = "registerMetrics"
    /\ regIdx' = 0
    /\ registeredGauges' = <<>>
    /\ registeredCounters' = <<>>
    /\ UNCHANGED <<config, config0, scrapes, moduleName, metrics, reads, reg, result,
                   decodeVars>>

\* one iteration of registerMetrics' loop
RegisterStep ==
    /\ pc = "registerMetrics"
    /\ regIdx < Len(metrics)
    /\ LET m      == metrics[regIdx + 1]
           labels == InjectModule(IF m.Labels = <<>> THEN <<>>
                                  ELSE config[m.Labels[1]].Labels, moduleName)
           r      == RegisterIteration(m, labels, reg, registeredGauges, registeredCounters)
       IN  /\ config' = IF m.Labels = <<>> THEN config
                        ELSE [config EXCEPT ![m.Labels[1]].Labels = <<labels>>]
           /\ regIdx' = regIdx + 1
           /\ reg' = r.reg
           /\ registeredGauges' = r.gauges
           /\ registeredCounters' = r.counters
           /\ CASE r.outcome = "ok" -> UNCHANGED <<result, pc>>
                [] r.outcome = "error" ->
                     /\ result' = Fail([kind |-> "register", module |-> moduleName,
                                        inner |-> r.err])
                     /\ pc' = "done"
                [] OTHER ->
                     /\ result' = Panic(r.err)
                     /\ pc' = "done"
    /\ UNCHANGED <<config0, scrapes, moduleName, metrics, reads, decodeVars>>

\* registerMetrics returns nil; Scrape returns the registry
RegisterReturn ==
    /\ pc = "registerMetrics"
    /\ regIdx = Len(metrics)
    /\ result' = [status |-> "ok", gatherer |-> TRUE, err |-> NoError]
    /\ pc' = "done"
    /\ UNCHANGED <<config, config0, scrapes, moduleName, metrics, reads, regIdx, reg,
                   registeredGauges, registeredCounters, decodeVars>>

\* the call is over: its locals are gone, the configuration stays
ScrapeFinish ==
    /\ pc = "done"
    /\ pc' = "idle"
    /\ moduleName' = ""
    /\ metrics' = <<>>
    /\ reads' = <<>>
    /\ regIdx' = 0
    /\ reg' = <<>>
    /\ registeredGauges' = <<>>
    /\ registeredCounters' = <<>>
    /\ result' = NoResult
    /\ UNCHANGED <<config, config0, scrapes, decodeVars>>

Next ==
    \/ ScrapeStart
    \/ ScrapeMetricsStep
    \/ ScrapeMetricsReturn
    \/ RegisterStep
    \/ RegisterReturn
    \/ ScrapeFinish

Spec == Init /\ [][Next]_vars

(***************************************************************************)
(* parseModbusData on its own: every definition and buffer of the bounds.  *)
(***************************************************************************)
InitDecode ==
    /\ config = <<>>
    /\ config0 = <<>>
    /\ scrapes = 0
    /\ IdleLocals
    /\ dDef \in DecodeDefs
    /\ dRaw \in RawInputs
    /\ dOut = NoDecode

Decode ==
    /\ dOut.kind = "none"
    /\ dOut' = parseModbusData(dDef, dRaw)
    /\ UNCHANGED <<dDef, dRaw, scrapeVars>>

NextDecode == Decode

SpecDecode == InitDecode /\ [][NextDecode]_vars

(***************************************************************************)
(* Properties of the scrape pipeline (Spec).                               *)
(***************************************************************************)
\* the labels registerMetrics applies for the metric built from definition j
AppliedLabels(j) == InjectModule(config0[j].Labels, moduleName)

\* the collector table of a kind
TableOf(kind) == IF kind = "gauge" THEN registeredGauges ELSE registeredCounters

\* definition j is recorded on the collector of its name and kind
Recorded(j) ==
    /\ config0[j].Name \in DOMAIN TableOf(config0[j].MetricType)
    /\ AppliedLabels(j) \in DOMAIN TableOf(config0[j].MetricType)[config0[j].Name].children

\* iteration j of registerMetrics' loop has run and the loop went on after it
IterationSucceeded(j) ==
    /\ pc \in {"registerMetrics", "done"}
    /\ j <= regIdx
    /\ ~ (pc = "done" /\ regIdx = j /\ result.status # "ok")

\* C1: a finished Scrape has returned an error and no collection, or a
\* collection in which every metric definition of the module was read, decoded
\* and registered; a failure inside scrapeMetrics leaves an empty metric list.
C1_AllOrNothing ==
    pc = "done" =>
        \/ /\ result.status = "error"
           /\ ~ result.gatherer
           /\ (result.err.kind = "scrape" => metrics = <<>>)
        \/ /\ result.status = "ok"
           /\ result.gatherer
           /\ Len(reads) = Len(config0)
           /\ Len(metrics) = Len(config0)
           /\ regIdx = Len(config0)
           /\ \A j \in 1..Len(config0) : Recorded(j)

\* C2: the configuration is read-only for the scrape pipeline: every metric
\* definition (its label mapping included) stays what it was at construction.
C2_ConfigReadOnly == config = config0

\* C3: applying a negative value to a counter-kind metric never panics: the
\* iteration ends registerMetrics with an ordinary error that names the
\* metric, its kind, value and labels, and Scrape returns it wrapped, without
\* a collection.
C3_NegativeCounterIsError ==
    pc \in {"registerMetrics", "done"} =>
        \A j \in 1..regIdx :
            (metrics[j].MetricType = "counter" /\ F64Negative(metrics[j].Value)) =>
                /\ pc = "done"
                /\ j = regIdx
                /\ result.status = "error"
                /\ ~ result.gatherer
                /\ result.err.kind = "register"
                /\ \/ result.err.inner.kind = "register_metric"
                   \/ /\ result.err.inner.kind = "apply"
                      /\ result.err.inner.Name = metrics[j].Name
                      /\ result.err.inner.MetricType = "counter"
                      /\ result.err.inner.Value = metrics[j].Value
                      /\ result.err.inner.Labels = AppliedLabels(j)

C3_Witness ==
    /\ pc = "done"
    /\ regIdx >= 1
    /\ metrics[regIdx].MetricType = "counter"
    /\ F64Negative(metrics[regIdx].Value)
    /\ result.status = "error"
    /\ result.err.kind = "register"
    /\ result.err.inner.kind = "apply"
    /\ result.err.inner.cause = "counter cannot decrease in value"

\* C4: two assembled metrics of one scrape with the same name and kind: when
\* their label key sets differ, registering the second ends registerMetrics
\* with a registration error and not a panic; when they match and the second
\* is applied, both are recorded on the one collector of that name.
C4_LabelConflictIsError ==
    pc \in {"registerMetrics", "done"} =>
        \A i, j \in 1..regIdx :
            (i < j /\ metrics[i].Name = metrics[j].Name
                   /\ metrics[i].MetricType = metrics[j].MetricType) =>
                IF DOMAIN AppliedLabels(i) # DOMAIN AppliedLabels(j)
                THEN /\ pc = "done"
                     /\ result.status = "error"
                     /\ result.err.kind = "register"
                ELSE IterationSucceeded(j) => (Recorded(i) /\ Recorded(j))

\* the claimed dispatch table
ClaimedFn(a) ==
    CASE a \div 10000 = 0 -> "ReadCoils"
      [] a \div 10000 = 1 -> "ReadDiscreteInputs"
      [] a \div 10000 = 3 -> "ReadInputRegisters"
      [] a \div 10000 = 4 -> "ReadHoldingRegisters"
      [] OTHER            -> "no read"

\* C6: the k-th read of a scrape is the coil / discrete-input / input-register
\* / holding-register read selected by the leading digit 0 / 1 / 3 / 4 of the
\* k-th definition's address, issued at the address modulo 10000; a definition
\* with any other leading digit gets no read, and the scrape fails with an
\* error naming that metric and address.
C6_AddressDispatch ==
    /\ \A k \in 1..Len(reads) :
          /\ k <= Len(config0)
          /\ reads[k].fn = ClaimedFn(config0[k].Address)
          /\ reads[k].address = config0[k].Address % 10000
    /\ \A k \in 1..Len(config0) :
          ClaimedFn(config0[k].Address) = "no read" =>
              /\ Len(reads) < k
              /\ pc # "registerMetrics"
              /\ result.status # "ok"
    /\ (pc = "done" /\ result.status = "error" /\ result.err.kind = "scrape"
        /\ result.err.inner.kind = "address_range") =>
          /\ Len(reads) < Len(config0)
          /\ ClaimedFn(config0[Len(reads) + 1].Address) = "no read"
          /\ result.err.inner.Name = config0[Len(reads) + 1].Name
          /\ result.err.inner.Address = config0[Len(reads) + 1].Address

C6_Witness ==
    /\ pc = "done"
    /\ result.status = "error"
    /\ result.err.kind = "scrape"
    /\ result.err.inner.kind = "address_range"
    /\ result.err.inner.Address = 50000
    /\ Len(reads) = 1
    /\ config0[1].Address = 40001
    /\ reads[1] = [fn |-> "ReadHoldingRegisters", address |-> 1, quantity |-> 2]

\* indices of the registered metrics with a given kind, name and labels
Matching(kind, name, labels) ==
    { j \in 1..regIdx : /\ metrics[j].MetricType = kind
                        /\ metrics[j].Name = name
                        /\ AppliedLabels(j) = labels }

Max(S) == CHOOSE x \in S : \A y \in S : y <= x

RECURSIVE SumValues(_)
SumValues(S) ==
    IF S = {} THEN ZeroF64
    ELSE LET j == Max(S) IN F64Add(SumValues(S \ {j}), metrics[j].Value)

\* C7: after registerMetrics has applied a sequence of metrics, the registry
\* holds at most one collector per (name, kind), every metric is recorded, a
\* gauge shows the value of the last metric with its name and labels, and a
\* counter shows the sum of the values of all metrics with its name and labels.
C7_Aggregation ==
    (pc \in {"registerMetrics", "done"} /\ (pc = "done" => result.status = "ok")) =>
        /\ \A a, b \in 1..Len(reg) :
              (reg[a].Name = reg[b].Name /\ reg[a].Kind = reg[b].Kind) => a = b
        /\ \A j \in 1..regIdx : Recorded(j)
        /\ \A n \in DOMAIN registeredGauges :
              \A l \in DOMAIN registeredGauges[n].children :
                  /\ Matching("gauge", n, l) # {}
                  /\ registeredGauges[n].children[l] =
                         metrics[Max(Matching("gauge", n, l))].Value
        /\ \A n \in DOMAIN registeredCounters :
              \A l \in DOMAIN registeredCounters[n].children :
                  /\ Matching("counter", n, l) # {}
                  /\ registeredCounters[n].children[l] =
                         SumValues(Matching("counter", n, l))

C7_Witness ==
    /\ pc = "done"
    /\ result.status = "ok"
    /\ regIdx = 2
    /\ "c" \in DOMAIN registeredCounters
    /\ Cardinality(Matching("counter", "c", AppliedLabels(1))) = 2
    /\ metrics[1].Value = IntF64(2)
    /\ registeredCounters["c"].children[AppliedLabels(1)] = IntF64(4)

(***************************************************************************)
(* Properties of the decoder (SpecDecode).                                 *)
(***************************************************************************)
Decoded == dOut.kind # "none"

\* bytes the claims require for a data type
RequiredLen(t) == IF t \in {"float32", "int32"} THEN 4 ELSE 2

SupportedTypes == {"float16", "float32", "int16", "int32", "uint16", "bool"}

\* C5: the decoder is total: it ends with exactly one of a value or an error
\* and never panics, and Float16 with enough bytes ends with an error that
\* says the type is not implemented.
C5_DecoderTotal ==
    Decoded =>
        /\ dOut.kind \in {"value", "error"}
        /\ (dDef.DataType = "float16" /\ Len(dRaw) >= 2) =>
              (dOut.kind = "error" /\ dOut.err.type = "not implemented")

\* C8: with enough bytes, Int16 is the first 2 bytes big-endian as a signed
\* 16-bit integer, Int32 the first 4 bytes big-endian as a signed 32-bit
\* integer, UInt16 the first 2 bytes big-endian as an unsigned 16-bit integer.
C8_IntegerWidth ==
    (Decoded /\ dDef.DataType \in {"int16", "int32", "uint16"}
             /\ Len(dRaw) >= RequiredLen(dDef.DataType)) =>
        /\ dOut.kind = "value"
        /\ dOut.v = CASE dDef.DataType = "int16" ->
                           IntF64(Int16Of(dRaw[1] * 256 + dRaw[2]))
                      [] dDef.DataType = "int32" ->
                           WordsF64(Int16Of(dRaw[1] * 256 + dRaw[2]), dRaw[3] * 256 + dRaw[4])
                      [] OTHER ->
                           IntF64(dRaw[1] * 256 + dRaw[2])

\* C9: for every supported data type, a buffer shorter than the type's
\* required length decodes to an InsufficientRegistersError and to no value,
\* whatever its contents and the bit offset.
C9_ShortBufferFails ==
    (Decoded /\ dDef.DataType \in SupportedTypes
             /\ Len(dRaw) < RequiredLen(dDef.DataType)) =>
        /\ dOut.kind = "error"
        /\ dOut.err.type = "InsufficientRegistersError"

C9_Witness ==
    /\ Decoded
    /\ dDef.DataType = "int32"
    /\ Len(dRaw) = 3
    /\ dOut.kind = "error"
    /\ dOut.err.type = "InsufficientRegistersError"
    /\ dOut.err.got = 3

\* C10: a boolean with at least 2 bytes and bit offset k decodes to 1.0 when
\* bit k (0 = least significant) of the big-endian word of the first 2 bytes is
\* set and to 0.0 otherwise; without a bit offset it fails with a configuration
\* error and yields no value.
C10_BooleanDecode ==
    (Decoded /\ dDef.DataType = "bool" /\ Len(dRaw) >= 2) =>
        IF dDef.BitOffset = <<>>
        THEN /\ dOut.kind = "error"
             /\ dOut.err.type = "expected bit position on boolean data type"
        ELSE LET k == dDef.BitOffset[1]
                 w == dRaw[1] * 256 + dRaw[2]
             IN  /\ dOut.kind = "value"
                 /\ dOut.v = IF k < 16 /\ (w \div Pow2(k)) % 2 = 1 THEN OneF64 ELSE ZeroF64

C10_Witness ==
    /\ Decoded
    /\ dDef.DataType = "bool"
    /\ dDef.BitOffset = <<1>>
    /\ dRaw = <<0, 2>>
    /\ dOut = ParseValue(OneF64)

====
